---- MODULE Spec2Model ----
(***************************************************************************)
(* Model of the two map tools of super_adventure:                          *)
(*   tools/reconstruct_map.py  flat grid; dedup, cell map, atlas, JSON     *)
(*   tools/create_tileset.py   segmented grid (screens with separators)    *)
(* An image is a sequence of pixel rows, a pixel is one number (the packed *)
(* channel values), a tile is TILE_SIZE rows of TILE_SIZE pixels.          *)
(***************************************************************************)
EXTENDS Integers, Sequences, FiniteSets, TLC

\* ---------------------------------------------------------------- constants
TILE_SIZE == 16
SCREEN_WIDTH_TILES == 16
SCREEN_HEIGHT_TILES == 11
SCREENS_WIDE == 16
SCREENS_TALL == 8
\* create_tileset.py
SCREEN_TILES_X == 16
SCREEN_TILES_Y == 11
SCREENS_X == 16
SCREENS_Y == 9
SEPARATOR_WIDTH == 1
SCREEN_WIDTH_PX == SCREEN_TILES_X * TILE_SIZE
SCREEN_HEIGHT_PX == SCREEN_TILES_Y * TILE_SIZE
OUTPUT_TILES_PER_ROW == 16

\* ------------------------------------------------------------------- bounds
\* Largest number of whole tiles across / down an input map image.
MaxTilesX == 2
MaxTilesY == 2
\* Largest number of grid cells of an input map composed of tile pictures.
MaxCells == 4
\* Number of distinct tile pictures an input map is composed of.
NumPatterns == 3
\* Pixels left over to the right of / below the last whole tile.
Slack == 5
\* Longest one-row map made of pairwise distinct solid tiles.
MaxStrip == 17

VARIABLES
  pc,             \* position of main()
  map_image,      \* reconstruct_map: the loaded RGBA map
  tile_to_id,     \* reconstruct_map: hash -> tile id
  unique_tiles,   \* reconstruct_map: list of tile arrays, first-seen order
  ty, tx,         \* loop counters of the two scans
  row, tilemap,   \* build_tile_map: row under construction, finished rows
  tileset_image,  \* create_tileset_image: the atlas being pasted
  tiles_per_row, num_rows, idx,
  tiled_map,      \* generate_tiled_json: the document dumped
  metadata,       \* generate_screen_metadata: the document dumped
  written,        \* output files written so far
  error,          \* exception that ended the run, or "none"
  img,            \* create_tileset: the opened source image
  warned,         \* create_tileset: the dimension warning was printed
  screen_y, screen_x, tile_y, tile_x,
  box,            \* create_tileset: the box of the last img.crop
  ct_unique_tiles, \* create_tileset: unique_tiles, hash -> tile image
  tile_order,     \* create_tileset: hashes in first-occurrence order
  processed,
  rows, output_img, i

vars == <<pc, map_image, tile_to_id, unique_tiles, ty, tx, row, tilemap,
          tileset_image, tiles_per_row, num_rows, idx, tiled_map, metadata,
          written, error, img, warned, screen_y, screen_x, tile_y, tile_x,
          box, ct_unique_tiles, tile_order, processed, rows, output_img, i>>

rmVars == <<map_image, tile_to_id, unique_tiles, ty, tx, row, tilemap,
            tileset_image, tiles_per_row, num_rows, idx, tiled_map, metadata,
            error>>
ctVars == <<img, warned, screen_y, screen_x, tile_y, tile_x, box,
            ct_unique_tiles, tile_order, processed, rows, output_img, i>>

\* ------------------------------------------------------------ image helpers
\* Image.size
ImageWidth(image) == IF Len(image) = 0 THEN 0 ELSE Len(image[1])
ImageHeight(image) == Len(image)

\* Image.crop((x, y, x + TILE_SIZE, y + TILE_SIZE)): pixels of the box; the
\* part of the box outside the image reads as 0.
Crop(image, x, y) ==
  [r \in 1..TILE_SIZE |-> [c \in 1..TILE_SIZE |->
     IF y + r <= ImageHeight(image) /\ x + c <= ImageWidth(image)
        /\ y + r >= 1 /\ x + c >= 1
     THEN image[y + r][x + c] ELSE 0]]

\* Image.new(mode, (w, h), fill)
NewImage(w, h, fill) == [r \in 1..h |-> [c \in 1..w |-> fill]]

\* Image.paste(tile, (px, py)) without a mask: the box is overwritten.
Paste(image, tile, px, py) ==
  [r \in 1..ImageHeight(image) |-> [c \in 1..ImageWidth(image) |->
     IF r > py /\ r <= py + TILE_SIZE /\ c > px /\ c <= px + TILE_SIZE
     THEN tile[r - py][c - px] ELSE image[r][c]]]

\* ------------------------------------------------- reconstruct_map helpers
extract_tile(image, x, y) == Crop(image, x, y)

RECURSIVE Flatten(_)
Flatten(rs) == IF rs = <<>> THEN <<>> ELSE Head(rs) \o Flatten(Tail(rs))

\* Mutant: only the first pixel row is hashed.
tile_hash_first_row(tile) == tile[1]

\* ndarray.tobytes(): the rows of the tile one after the other.
tile_hash(tile) == Flatten(tile)

\* Mutant: ids counted from 1.
next_tile_id_from_one(tiles) == Len(tiles) + 1

\* Line 65: the id of a tile not seen before.
next_tile_id(tiles) == Len(tiles)

\* Mutant: the new tile takes id 0 and the others move up.
table_insert_front(table, h, tile_id) ==
  [k \in DOMAIN table \cup {h} |-> IF k = h THEN 0 ELSE table[k] + 1]

\* Line 66: tile_to_id[h] = tile_id
table_insert(table, h, tile_id) ==
  [k \in DOMAIN table \cup {h} |-> IF k = h THEN tile_id ELSE table[k]]

\* Mutant: the internal id is emitted as it is.
export_id_zero_based(tile_id) == tile_id

\* Line 91: Tiled uses 1-based tile IDs (0 means empty).
export_id(tile_id) == tile_id + 1

\* Mutant: column and row exchanged.
atlas_cell_transposed(n, per_row) == <<n \div per_row, n % per_row>>

\* Lines 114-115: the atlas cell (tx, ty) of list index n.
atlas_cell(n, per_row) == <<n % per_row, n \div per_row>>

tiles_x == ImageWidth(map_image) \div TILE_SIZE
tiles_y == ImageHeight(map_image) \div TILE_SIZE

\* Mutant: never fewer than one column.
CeilSqrt_at_least_one(n) ==
  IF n = 0 THEN 1
  ELSE CHOOSE c \in 1..n : c * c >= n /\ (c - 1) * (c - 1) < n

\* int(np.ceil(np.sqrt(n)))
CeilSqrt(n) == CHOOSE c \in 0..n : c * c >= n /\ (c = 0 \/ (c - 1) * (c - 1) < n)
\* Mutant: the quotient is rounded down.
CeilDiv_floor(a, b) == a \div b

\* int(np.ceil(a / b)), b > 0
CeilDiv(a, b) == IF a % b = 0 THEN a \div b ELSE a \div b + 1

\* ------------------------------------------------------------------ inputs
\* Pixel (r, c), 1-based, of tile picture p.
PatPixel(p, r, c) ==
  CASE p = 0 -> 0
    [] p = 1 -> 1
    [] p = 2 -> IF r = TILE_SIZE /\ c = TILE_SIZE THEN 0 ELSE 1
    [] p = 3 -> IF r = 1 /\ c = 2 THEN 0 ELSE 1
    [] p = 4 -> IF r = 2 /\ c = 1 THEN 0 ELSE 1
    [] OTHER -> p

\* The picture of cell n of a strip: solid, distinct from every other cell.
StripPicture(n) == 5 + n

Patterns == 0..(NumPatterns - 1)
Widths == {n * TILE_SIZE + e : n \in 0..MaxTilesX, e \in {0, Slack}} \ {0}
Heights == {n * TILE_SIZE + e : n \in 0..MaxTilesY, e \in {0, Slack}} \ {0}
Cells(w, h) == (0..(h \div TILE_SIZE - 1)) \X (0..(w \div TILE_SIZE - 1))

\* The w x h image whose cell (ty, tx) shows picture a[<<ty, tx>>]; the
\* leftover pixels are 1.
MakeImage(w, h, a) ==
  [r \in 1..h |-> [c \in 1..w |->
     IF (r - 1) \div TILE_SIZE < h \div TILE_SIZE
        /\ (c - 1) \div TILE_SIZE < w \div TILE_SIZE
     THEN PatPixel(a[<<(r - 1) \div TILE_SIZE, (c - 1) \div TILE_SIZE>>],
                   ((r - 1) % TILE_SIZE) + 1, ((c - 1) % TILE_SIZE) + 1)
     ELSE 1]]

NoDoc == [written |-> FALSE]
NoImage == <<>>
NoBox == <<>>

\* create_tileset.py is not running.
CtIdle ==
  /\ img = NoImage /\ warned = FALSE
  /\ screen_y = 0 /\ screen_x = 0 /\ tile_y = 0 /\ tile_x = 0
  /\ box = NoBox
  /\ ct_unique_tiles = <<>> /\ tile_order = <<>>
  /\ processed = 0
  /\ rows = 0 /\ output_img = NoImage /\ i = 0

\* reconstruct_map.py is not running.
RmIdle ==
  /\ map_image = NoImage
  /\ tile_to_id = <<>> /\ unique_tiles = <<>>
  /\ ty = 0 /\ tx = 0 /\ row = <<>> /\ tilemap = <<>>
  /\ tileset_image = NoImage
  /\ tiles_per_row = 0 /\ num_rows = 0 /\ idx = 0
  /\ tiled_map = NoDoc /\ metadata = NoDoc
  /\ error = "none"

Init ==
  /\ pc = "extract"
  /\ \/ \E w \in Widths, h \in Heights :
          /\ Cardinality(Cells(w, h)) <= MaxCells
          /\ \E a \in [Cells(w, h) -> Patterns] : map_image = MakeImage(w, h, a)
     \/ \E n \in 1..MaxStrip :
          map_image = MakeImage(n * TILE_SIZE, TILE_SIZE,
                        [cell \in Cells(n * TILE_SIZE, TILE_SIZE) |->
                           StripPicture(cell[2])])
  /\ tile_to_id = <<>>
  /\ unique_tiles = <<>>
  /\ ty = 0 /\ tx = 0
  /\ row = <<>> /\ tilemap = <<>>
  /\ tileset_image = NoImage
  /\ tiles_per_row = 0 /\ num_rows = 0 /\ idx = 0
  /\ tiled_map = NoDoc
  /\ metadata = NoDoc
  /\ written = {}
  /\ error = "none"
  /\ CtIdle

\* ----------------------------------------- extract_unique_tiles_from_map
\* One iteration of the inner loop.
ExtractStep ==
  /\ pc = "extract" /\ ty < tiles_y /\ tx < tiles_x
  /\ LET tile == extract_tile(map_image, tx * TILE_SIZE, ty * TILE_SIZE)
         h == tile_hash(tile)
     IN IF h \notin DOMAIN tile_to_id
        THEN /\ tile_to_id' = table_insert(tile_to_id, h, next_tile_id(unique_tiles))
             /\ unique_tiles' = Append(unique_tiles, tile)
        ELSE UNCHANGED <<tile_to_id, unique_tiles>>
  /\ IF tx + 1 = tiles_x THEN ty' = ty + 1 /\ tx' = 0
                         ELSE ty' = ty /\ tx' = tx + 1
  /\ UNCHANGED <<pc, map_image, row, tilemap, tileset_image, tiles_per_row,
                 num_rows, idx, tiled_map, metadata, written, error>>
  /\ UNCHANGED ctVars

\* Both loops are exhausted (at once when a dimension is 0): return.
ExtractReturn ==
  /\ pc = "extract" /\ (ty = tiles_y \/ tiles_x = 0)
  /\ pc' = "build"
  /\ ty' = 0 /\ tx' = 0
  /\ UNCHANGED <<map_image, tile_to_id, unique_tiles, row, tilemap,
                 tileset_image, tiles_per_row, num_rows, idx, tiled_map,
                 metadata, written, error>>
  /\ UNCHANGED ctVars

\* ------------------------------------------------------- build_tile_map
BuildStep ==
  /\ pc = "build" /\ ty < tiles_y /\ tx < tiles_x
  /\ LET tile == extract_tile(map_image, tx * TILE_SIZE, ty * TILE_SIZE)
         h == tile_hash(tile)
         tile_id == tile_to_id[h]
         newrow == Append(row, export_id(tile_id))
     IN IF tx + 1 = tiles_x
        THEN /\ tilemap' = Append(tilemap, newrow)
             /\ row' = <<>>
             /\ ty' = ty + 1 /\ tx' = 0
        ELSE /\ row' = newrow
             /\ tx' = tx + 1
             /\ UNCHANGED <<tilemap, ty>>
  /\ UNCHANGED <<pc, map_image, tile_to_id, unique_tiles, tileset_image,
                 tiles_per_row, num_rows, idx, tiled_map, metadata, written,
                 error>>
  /\ UNCHANGED ctVars

\* A row of an image less than one tile wide: the inner loop is empty.
BuildEmptyRow ==
  /\ pc = "build" /\ ty < tiles_y /\ tiles_x = 0
  /\ tilemap' = Append(tilemap, <<>>)
  /\ ty' = ty + 1
  /\ UNCHANGED <<pc, map_image, tile_to_id, unique_tiles, tx, row,
                 tileset_image, tiles_per_row, num_rows, idx, tiled_map,
                 metadata, written, error>>
  /\ UNCHANGED ctVars

BuildReturn ==
  /\ pc = "build" /\ ty = tiles_y
  /\ pc' = "create_tileset_image"
  /\ UNCHANGED <<map_image, tile_to_id, unique_tiles, ty, tx, row, tilemap,
                 tileset_image, tiles_per_row, num_rows, idx, tiled_map,
                 metadata, written, error>>
  /\ UNCHANGED ctVars

\* ------------------------------------------------- create_tileset_image
\* Lines 102-111: the layout and the empty atlas.  With no tiles the
\* division by tiles_per_row = 0 raises and main() dies there.
CreateTilesetImage ==
  /\ pc = "create_tileset_image"
  /\ LET num_tiles == Len(unique_tiles)
         per_row == CeilSqrt(num_tiles)
     IN /\ tiles_per_row' = per_row
        /\ IF per_row = 0
           THEN /\ pc' = "aborted"
                /\ error' = "ZeroDivisionError"
                /\ UNCHANGED <<num_rows, tileset_image>>
           ELSE /\ num_rows' = CeilDiv(num_tiles, per_row)
                /\ tileset_image' = NewImage(per_row * TILE_SIZE,
                                             CeilDiv(num_tiles, per_row) * TILE_SIZE, 0)
                /\ pc' = "paste"
                /\ UNCHANGED error
  /\ idx' = 0
  /\ UNCHANGED <<map_image, tile_to_id, unique_tiles, ty, tx, row, tilemap,
                 tiled_map, metadata, written>>
  /\ UNCHANGED ctVars

\* Lines 113-119: one iteration of the paste loop.
PasteStep ==
  /\ pc = "paste" /\ idx < Len(unique_tiles)
  /\ LET cell == atlas_cell(idx, tiles_per_row)
     IN tileset_image' = Paste(tileset_image, unique_tiles[idx + 1],
                               cell[1] * TILE_SIZE, cell[2] * TILE_SIZE)
  /\ idx' = idx + 1
  /\ UNCHANGED <<pc, map_image, tile_to_id, unique_tiles, ty, tx, row,
                 tilemap, tiles_per_row, num_rows, tiled_map, metadata,
                 written, error>>
  /\ UNCHANGED ctVars

\* Lines 121-124: save and return.
SaveTileset ==
  /\ pc = "paste" /\ idx = Len(unique_tiles)
  /\ written' = written \cup {"tileset.png"}
  /\ pc' = "generate_tiled_json"
  /\ UNCHANGED <<map_image, tile_to_id, unique_tiles, ty, tx, row, tilemap,
                 tileset_image, tiles_per_row, num_rows, idx, tiled_map,
                 metadata, error>>
  /\ UNCHANGED ctVars

\* -------------------------------------------------- generate_tiled_json
generate_tiled_json(tm, per_row, num_tiles) ==
  [written |-> TRUE,
   height |-> Len(tm),
   width |-> Len(tm[1]),
   data |-> Flatten(tm),
   columns |-> per_row,
   firstgid |-> 1,
   imageheight |-> (num_tiles \div per_row + 1) * TILE_SIZE,
   imagewidth |-> per_row * TILE_SIZE,
   tilecount |-> num_tiles,
   tileheight |-> TILE_SIZE,
   tilewidth |-> TILE_SIZE]

\* tilemap[0] of a map without rows raises before anything is written.
GenerateTiledJson ==
  /\ pc = "generate_tiled_json"
  /\ IF tilemap = <<>>
     THEN /\ pc' = "aborted"
          /\ error' = "IndexError"
          /\ UNCHANGED <<tiled_map, written>>
     ELSE /\ tiled_map' = generate_tiled_json(tilemap, tiles_per_row,
                                              Len(unique_tiles))
          /\ written' = written \cup {"overworld.json"}
          /\ pc' = "generate_screen_metadata"
          /\ UNCHANGED error
  /\ UNCHANGED <<map_image, tile_to_id, unique_tiles, ty, tx, row, tilemap,
                 tileset_image, tiles_per_row, num_rows, idx, metadata>>
  /\ UNCHANGED ctVars

\* --------------------------------------------- generate_screen_metadata
generate_screen_metadata ==
  [written |-> TRUE,
   tile_size |-> TILE_SIZE,
   total_screens |-> SCREENS_WIDE * SCREENS_TALL,
   screens |-> [n \in 1..(SCREENS_WIDE * SCREENS_TALL) |->
      LET sx == (n - 1) % SCREENS_WIDE
          sy == (n - 1) \div SCREENS_WIDE
      IN [id |-> sy * SCREENS_WIDE + sx,
          grid_x |-> sx, grid_y |-> sy,
          tile_x |-> sx * SCREEN_WIDTH_TILES,
          tile_y |-> sy * SCREEN_HEIGHT_TILES,
          pixel_x |-> sx * SCREEN_WIDTH_TILES * TILE_SIZE,
          pixel_y |-> sy * SCREEN_HEIGHT_TILES * TILE_SIZE]]]

GenerateScreenMetadata ==
  /\ pc = "generate_screen_metadata"
  /\ metadata' = generate_screen_metadata
  /\ written' = written \cup {"screens.json"}
  /\ pc' = "done"
  /\ UNCHANGED <<map_image, tile_to_id, unique_tiles, ty, tx, row, tilemap,
                 tileset_image, tiles_per_row, num_rows, idx, tiled_map, error>>
  /\ UNCHANGED ctVars

Next ==
  \/ ExtractStep
  \/ ExtractReturn
  \/ BuildStep
  \/ BuildEmptyRow
  \/ BuildReturn
  \/ CreateTilesetImage
  \/ PasteStep
  \/ SaveTileset
  \/ GenerateTiledJson
  \/ GenerateScreenMetadata

Spec == Init /\ [][Next]_vars

\* ============================================================ create_tileset
\* The source image of create_tileset.py is 4111 x 1592 pixels when it
\* matches the geometry, too large to enumerate pixel by pixel: it is held
\* as its size and the number of distinct tile pictures painted on it, and
\* GetPixel gives its pixels.

\* Largest number of distinct tile pictures on a segmented source image.
MaxDistinct == 17
\* Pixels a mismatching source image is wider / taller or narrower / shorter.
Delta == 100

expected_width == SCREENS_X * SCREEN_WIDTH_PX + (SCREENS_X - 1) * SEPARATOR_WIDTH
expected_height == SCREENS_Y * SCREEN_HEIGHT_PX + (SCREENS_Y - 1) * SEPARATOR_WIDTH

\* Pixel (x, y), 0-based, of a picture with k distinct tiles: the tiles of
\* the top tile row are numbered left to right across the screens, the
\* numbers above k and all lower rows show tile 1; separators are 99.
Paint(k, x, y) ==
  LET sx == x \div (SCREEN_WIDTH_PX + SEPARATOR_WIDTH)
      lx == x % (SCREEN_WIDTH_PX + SEPARATOR_WIDTH)
      ly == y % (SCREEN_HEIGHT_PX + SEPARATOR_WIDTH)
      g == sx * SCREEN_TILES_X + lx \div TILE_SIZE
  IN IF lx >= SCREEN_WIDTH_PX \/ ly >= SCREEN_HEIGHT_PX THEN 99
     ELSE IF y < TILE_SIZE /\ g < k THEN g + 1
     ELSE 1

GetPixel(image, x, y) ==
  IF x >= 0 /\ x < image.width /\ y >= 0 /\ y < image.height
  THEN Paint(image.distinct, x, y) ELSE 0

\* img.crop(box) of a TILE_SIZE box: pixels outside the image read as 0.
CropBox(image, b) ==
  [r \in 1..(b[4] - b[2]) |-> [c \in 1..(b[3] - b[1]) |->
     GetPixel(image, b[1] + c - 1, b[2] + r - 1)]]

\* Mutant: the separators are not counted.
get_screen_pixel_origin_no_separator(sx, sy) ==
  <<sx * SCREEN_WIDTH_PX, sy * SCREEN_HEIGHT_PX>>

get_screen_pixel_origin(sx, sy) ==
  <<sx * (SCREEN_WIDTH_PX + SEPARATOR_WIDTH),
    sy * (SCREEN_HEIGHT_PX + SEPARATOR_WIDTH)>>

\* The box extract_tile hands to img.crop.
ct_extract_tile_box(sx, sy, tlx, tly) ==
  LET origin == get_screen_pixel_origin(sx, sy)
      tile_px_x == origin[1] + tlx * TILE_SIZE
      tile_px_y == origin[2] + tly * TILE_SIZE
  IN <<tile_px_x, tile_px_y, tile_px_x + TILE_SIZE, tile_px_y + TILE_SIZE>>

ct_extract_tile(image, sx, sy, tlx, tly) ==
  CropBox(image, ct_extract_tile_box(sx, sy, tlx, tly))

\* hashlib.md5(bytes).hexdigest().  MD5 is not computed: the digest of a byte
\* string is represented by the tagged byte string, i.e. taken to be free of
\* collisions on the inputs of the model.
md5_hexdigest(bytes) == <<"md5">> \o bytes

ct_tile_hash(tile) == md5_hexdigest(Flatten(tile))

\* <<extra width, extra height>> of the source images tried.
SegDeltas == {<<0, 0>>, <<0 - Delta, 0>>, <<Delta, Delta>>}
SegDistinct == {1, MaxDistinct}

InitSeg ==
  /\ pc = "ct_verify"
  /\ \E d \in SegDeltas, k \in SegDistinct :
       img = [width |-> expected_width + d[1], height |-> expected_height + d[2],
              distinct |-> k]
  /\ warned = FALSE
  /\ screen_y = 0 /\ screen_x = 0 /\ tile_y = 0 /\ tile_x = 0
  /\ box = NoBox
  /\ ct_unique_tiles = <<>> /\ tile_order = <<>>
  /\ processed = 0
  /\ rows = 0 /\ output_img = NoImage /\ i = 0
  /\ written = {}
  /\ RmIdle

\* Lines 71-77: the dimension check only prints.
CtVerify ==
  /\ pc = "ct_verify"
  /\ warned' = (img.width # expected_width \/ img.height # expected_height)
  /\ pc' = "ct_extract"
  /\ UNCHANGED <<img, screen_y, screen_x, tile_y, tile_x, box,
                 ct_unique_tiles, tile_order, processed, rows, output_img, i,
                 written>>
  /\ UNCHANGED rmVars

\* Lines 92-99: one iteration of the innermost loop.
CtExtractStep ==
  /\ pc = "ct_extract" /\ screen_y < SCREENS_Y
  /\ LET tile == ct_extract_tile(img, screen_x, screen_y, tile_x, tile_y)
         h == ct_tile_hash(tile)
     IN IF h \notin DOMAIN ct_unique_tiles
        THEN /\ ct_unique_tiles' = [k \in DOMAIN ct_unique_tiles \cup {h} |->
                                      IF k = h THEN tile ELSE ct_unique_tiles[k]]
             /\ tile_order' = Append(tile_order, h)
        ELSE UNCHANGED <<ct_unique_tiles, tile_order>>
  /\ box' = ct_extract_tile_box(screen_x, screen_y, tile_x, tile_y)
  /\ processed' = processed + 1
  /\ IF tile_x + 1 < SCREEN_TILES_X
     THEN tile_x' = tile_x + 1 /\ UNCHANGED <<tile_y, screen_x, screen_y>>
     ELSE /\ tile_x' = 0
          /\ IF tile_y + 1 < SCREEN_TILES_Y
             THEN tile_y' = tile_y + 1 /\ UNCHANGED <<screen_x, screen_y>>
             ELSE /\ tile_y' = 0
                  /\ IF screen_x + 1 < SCREENS_X
                     THEN screen_x' = screen_x + 1 /\ UNCHANGED screen_y
                     ELSE screen_x' = 0 /\ screen_y' = screen_y + 1
  /\ UNCHANGED <<pc, img, warned, rows, output_img, i, written>>
  /\ UNCHANGED rmVars

\* Lines 104-113: the layout and the empty output image.
CtCreateOutput ==
  /\ pc = "ct_extract" /\ screen_y = SCREENS_Y
  /\ LET num_unique == Cardinality(DOMAIN ct_unique_tiles)
     IN /\ rows' = (num_unique + OUTPUT_TILES_PER_ROW - 1) \div OUTPUT_TILES_PER_ROW
        /\ output_img' = NewImage(OUTPUT_TILES_PER_ROW * TILE_SIZE,
                                  rows' * TILE_SIZE, 0)
  /\ i' = 0
  /\ pc' = "ct_paste"
  /\ UNCHANGED <<img, warned, screen_y, screen_x, tile_y, tile_x, box,
                 ct_unique_tiles, tile_order, processed, written>>
  /\ UNCHANGED rmVars

\* Lines 115-119: one iteration of the paste loop.
CtPasteStep ==
  /\ pc = "ct_paste" /\ i < Len(tile_order)
  /\ LET tile == ct_unique_tiles[tile_order[i + 1]]
         out_x == (i % OUTPUT_TILES_PER_ROW) * TILE_SIZE
         out_y == (i \div OUTPUT_TILES_PER_ROW) * TILE_SIZE
     IN output_img' = Paste(output_img, tile, out_x, out_y)
  /\ i' = i + 1
  /\ UNCHANGED <<pc, img, warned, screen_y, screen_x, tile_y, tile_x, box,
                 ct_unique_tiles, tile_order, processed, rows, written>>
  /\ UNCHANGED rmVars

\* Line 121: save.
CtSave ==
  /\ pc = "ct_paste" /\ i = Len(tile_order)
  /\ written' = written \cup {"overworld_tileset.png"}
  /\ pc' = "ct_done"
  /\ UNCHANGED ctVars
  /\ UNCHANGED rmVars

NextSeg ==
  \/ CtVerify
  \/ CtExtractStep
  \/ CtCreateOutput
  \/ CtPasteStep
  \/ CtSave

SpecSeg == InitSeg /\ [][NextSeg]_vars

\* Either tool is run.
InitTools == Init \/ InitSeg
NextTools == Next \/ NextSeg
SpecTools == InitTools /\ [][NextTools]_vars


\* ================================================================ properties
\* The grid cells of the map, as <<row, column>>, and their pixels.
GridCells == (0..(tiles_y - 1)) \X (0..(tiles_x - 1))
CellPixels(cell) ==
  [y \in 1..TILE_SIZE |-> [x \in 1..TILE_SIZE |->
     map_image[cell[1] * TILE_SIZE + y][cell[2] * TILE_SIZE + x]]]
\* Raster position of a cell and the cell at a raster position.
RasterPos(cell) == cell[1] * tiles_x + cell[2]
CellAt(n) == <<n \div tiles_x, n % tiles_x>>
\* The entry of the cell map for a cell.
MapEntry(cell) == tilemap[cell[1] + 1][cell[2] + 1]
\* build_tile_map has returned.
MapBuilt == pc \in {"create_tileset_image", "paste", "generate_tiled_json",
                    "generate_screen_metadata", "done", "aborted"}

\* C1: once the cell map is built, two grid cells carry the same tile id in
\* it if and only if their pixel content is identical, however far apart.
DedupCorrect ==
  MapBuilt =>
    \A a \in GridCells, b \in GridCells :
      (MapEntry(a) = MapEntry(b)) <=> (CellPixels(a) = CellPixels(b))

\* Opposite corners of the map are equal and get one id, their neighbour
\* differs and gets another.
DedupWitness ==
  /\ pc = "done" /\ tiles_x >= 2 /\ tiles_y >= 2
  /\ CellPixels(<<0, 0>>) = CellPixels(<<1, 1>>)
  /\ CellPixels(<<0, 0>>) # CellPixels(<<0, 1>>)
  /\ MapEntry(<<0, 0>>) = MapEntry(<<1, 1>>)
  /\ MapEntry(<<0, 0>>) # MapEntry(<<0, 1>>)

\* Number of cells the extraction scan has processed.
Scanned == IF pc = "extract" THEN ty * tiles_x + tx ELSE tiles_x * tiles_y

\* C2: the k-th distinct content of the raster scan (k from 0) has id k and
\* unique_tiles[k] holds it; ids grow with the position of first occurrence;
\* the ids are exactly 0 .. unique_count - 1, each used once.
SequentialIds ==
  LET \* content at each raster position scanned
      content == [n \in 0..(Scanned - 1) |-> CellPixels(CellAt(n))]
      \* positions holding a content no earlier position holds
      first == {n \in 0..(Scanned - 1) :
                  \A m \in 0..(n - 1) : content[m] # content[n]}
      \* number of distinct contents met before position n
      before == [n \in first |-> Cardinality({m \in first : m < n})]
      hash == [n \in first |-> tile_hash(content[n])]
  IN /\ \A n \in first :
          /\ hash[n] \in DOMAIN tile_to_id
          /\ tile_to_id[hash[n]] = before[n]
          /\ unique_tiles[tile_to_id[hash[n]] + 1] = content[n]
     /\ \A n \in first, m \in first :
          (n < m) => tile_to_id[hash[n]] < tile_to_id[hash[m]]
     /\ {tile_to_id[h] : h \in DOMAIN tile_to_id} = 0..(Len(unique_tiles) - 1)
     /\ Cardinality(DOMAIN tile_to_id) = Len(unique_tiles)
     /\ Len(unique_tiles) = Cardinality(first)

\* A scan that met three contents, the third after a repeat of the first.
SequentialIdsWitness ==
  /\ pc = "build" /\ Len(unique_tiles) = 3
  /\ tiles_x >= 2 /\ tiles_y >= 2
  /\ CellPixels(<<0, 0>>) = CellPixels(<<0, 1>>)
  /\ tile_to_id[tile_hash(CellPixels(<<1, 1>>))] = 2

\* C3: for every cell, the reference exported for it, decoded to an atlas
\* cell (id i at column i % columns, row i // columns) and cropped from the
\* atlas, gives back the pixels of the cell.
RoundTrip ==
  pc = "done" =>
    \A cell \in GridCells :
      LET ref == tiled_map.data[cell[1] * tiled_map.width + cell[2] + 1]
          n == ref - tiled_map.firstgid
          col == n % tiled_map.columns
          line == n \div tiled_map.columns
      IN /\ ref = MapEntry(cell)
         /\ Crop(tileset_image, col * TILE_SIZE, line * TILE_SIZE) = CellPixels(cell)

\* A finished run whose atlas has more than one row.
RoundTripWitness ==
  /\ pc = "done" /\ num_rows >= 2
  /\ \E cell \in GridCells : MapEntry(cell) - 1 >= tiles_per_row

\* C4: every entry of the exported data array is the internal id of its
\* cell plus 1, in 1 .. unique_count; the array is row-major and its length
\* is width * height.
OneBasedExport ==
  tiled_map.written =>
    /\ tiled_map.width = tiles_x /\ tiled_map.height = tiles_y
    /\ Len(tiled_map.data) = tiled_map.width * tiled_map.height
    /\ \A cell \in GridCells :
         LET entry == tiled_map.data[cell[1] * tiled_map.width + cell[2] + 1]
         IN /\ entry = tile_to_id[tile_hash(CellPixels(cell))] + 1
            /\ entry \in 1..Len(unique_tiles)
            /\ entry # 0

\* An exported map of two rows and two columns with more than one tile.
OneBasedExportWitness ==
  /\ tiled_map.written /\ tiled_map.width = 2 /\ tiled_map.height = 2
  /\ tiled_map.data[1] = 1 /\ tiled_map.data[3] = 2

\* The map has no grid cell.
ZeroCells == tiles_x = 0 \/ tiles_y = 0

\* C6: a map image without a single grid cell never gets past the atlas
\* layout: the run ends in an error and no output file is written.
EmptyResultFatal ==
  (map_image # NoImage /\ ZeroCells) =>
    /\ written = {}
    /\ pc \in {"extract", "build", "create_tileset_image", "aborted"}
    /\ (pc = "aborted" => error # "none")

\* The run on a map narrower than a tile has aborted.
EmptyResultWitness ==
  /\ map_image # NoImage /\ tiles_x = 0 /\ tiles_y > 0
  /\ pc = "aborted" /\ written = {}

\* C8: a step of the extraction scan leaves the table alone or adds one
\* entry, with id the previous length of unique_tiles, and appends one
\* block; no entry changes or goes; after the scan the table is frozen.
TableStep ==
  /\ \A h \in DOMAIN tile_to_id :
       h \in DOMAIN tile_to_id' /\ tile_to_id'[h] = tile_to_id[h]
  /\ \A n \in 1..Len(unique_tiles) :
       n <= Len(unique_tiles') /\ unique_tiles'[n] = unique_tiles[n]
  /\ \/ tile_to_id' = tile_to_id /\ unique_tiles' = unique_tiles
     \/ /\ pc = "extract"
        /\ Len(unique_tiles') = Len(unique_tiles) + 1
        /\ \E h \in DOMAIN tile_to_id' :
             /\ h \notin DOMAIN tile_to_id
             /\ DOMAIN tile_to_id' = DOMAIN tile_to_id \cup {h}
             /\ tile_to_id'[h] = Len(unique_tiles)
             /\ h = tile_hash(unique_tiles'[Len(unique_tiles')])
TableAppendOnly == [][TableStep]_vars

\* A finished run whose scan both added tiles and met repeats.
TableAppendOnlyWitness ==
  /\ pc = "done" /\ Len(unique_tiles) >= 2
  /\ Len(unique_tiles) < tiles_x * tiles_y

\* The layout the claim gives for n tiles in `columns` columns.
LayoutRows(n, columns) == CHOOSE r \in 0..n : r * columns >= n /\ (r - 1) * columns < n
IsSquareColumns(n, columns) == columns * columns >= n /\ (columns - 1) * (columns - 1) < n
\* The atlas `atlas` of `columns` columns holds tile j of n at cell
\* (j % columns, j // columns), every tile inside, no two in one cell.
PlacedAt(atlas, n, columns, TileOf(_)) ==
  /\ ImageWidth(atlas) = columns * TILE_SIZE
  /\ ImageHeight(atlas) = LayoutRows(n, columns) * TILE_SIZE
  /\ \A j \in 0..(n - 1) :
       /\ j \div columns < LayoutRows(n, columns)
       /\ Crop(atlas, (j % columns) * TILE_SIZE, (j \div columns) * TILE_SIZE)
            = TileOf(j)
       /\ \A k \in 0..(n - 1) :
            (k # j) => <<k % columns, k \div columns>> # <<j % columns, j \div columns>>
  /\ \A col \in 0..(columns - 1), line \in 0..(LayoutRows(n, columns) - 1) :
       (line * columns + col >= n) =>
         Crop(atlas, col * TILE_SIZE, line * TILE_SIZE)
           = NewImage(TILE_SIZE, TILE_SIZE, 0)
RmTile(j) == unique_tiles[j + 1]
CtTile(j) == ct_unique_tiles[tile_order[j + 1]]

\* C9: the saved atlas has ceil(sqrt(count)) columns (reconstruct_map) or 16
\* (create_tileset) and ceil(count / columns) rows, and the block at list
\* index i sits at tile cell (i % columns, i // columns), inside the atlas,
\* alone in its cell.
AtlasPlacement ==
  /\ ("tileset.png" \in written) =>
       /\ Len(unique_tiles) >= 1
       /\ IsSquareColumns(Len(unique_tiles), tiles_per_row)
       /\ num_rows = LayoutRows(Len(unique_tiles), tiles_per_row)
       /\ PlacedAt(tileset_image, Len(unique_tiles), tiles_per_row, RmTile)
  /\ ("overworld_tileset.png" \in written) =>
       /\ Len(tile_order) >= 1
       /\ rows = LayoutRows(Len(tile_order), 16)
       /\ PlacedAt(output_img, Len(tile_order), 16, CtTile)

\* reconstruct_map saved an atlas of more than 16 tiles whose last row is
\* not full.
AtlasPlacementWitness ==
  /\ "tileset.png" \in written /\ Len(unique_tiles) > 16
  /\ Len(unique_tiles) % tiles_per_row # 0

\* create_tileset saved an atlas of more than 16 tiles.
FixedColumnsAtlasReached ==
  "overworld_tileset.png" \in written /\ Len(tile_order) > 16

\* C10: the tileset descriptor gives the pixel size of the atlas built.
DescriptorMatchesAtlas ==
  tiled_map.written =>
    /\ tiled_map.imagewidth = ImageWidth(tileset_image)
    /\ tiled_map.imageheight = ImageHeight(tileset_image)

\* ------------------------------------------------ create_tileset properties
\* The image size differs from the size the geometry gives.
Mismatch == img.width # expected_width \/ img.height # expected_height

\* C5: on a size mismatch the run warns, goes on, and no crop box leaves
\* the actual image.
MismatchUsesActualBounds ==
  (img # NoImage /\ pc # "ct_verify" /\ Mismatch) =>
    /\ warned
    /\ pc # "aborted"
    /\ (box # NoBox =>
          /\ 0 <= box[1] /\ box[3] <= img.width
          /\ 0 <= box[2] /\ box[4] <= img.height)

\* C7: the box cropped for local tile (tile_x, tile_y) of screen
\* (screen_x, screen_y) starts at
\*   screen_x * (SCREEN_TILES_X * TILE_SIZE + SEPARATOR_WIDTH) + tile_x * TILE_SIZE
\* and the same in y; screen (1, 0) starts at (257, 0).
AddressingStep ==
  (pc = "ct_extract" /\ screen_y < SCREENS_Y) =>
    /\ box'[1] = screen_x * (SCREEN_TILES_X * TILE_SIZE + SEPARATOR_WIDTH)
                   + tile_x * TILE_SIZE
    /\ box'[2] = screen_y * (SCREEN_TILES_Y * TILE_SIZE + SEPARATOR_WIDTH)
                   + tile_y * TILE_SIZE
    /\ (screen_x = 1 /\ screen_y = 0) =>
         /\ box'[1] = 257 + tile_x * 16
         /\ box'[2] = tile_y * 16
SegmentedAddressing == [][AddressingStep]_vars

\* The first tile of screen (1, 0) has just been cropped.
SegmentedAddressingWitness ==
  processed = 177 /\ box = <<257, 0, 273, 16>>

====
